---------------------------- MODULE Spec2Model ----------------------------
(***************************************************************************)
(* Model of resume.py: the ResumeParser class (text normalisation, entity  *)
(* tagging, experience extraction, TF-IDF ranking) and the processing loop *)
(* of main().                                                              *)
(*                                                                         *)
(* A Python str is a sequence of one-character strings.  The character     *)
(* U+2013 (en dash) is written "endash".                                   *)
(***************************************************************************)
EXTENDS Naturals, Integers, Sequences, FiniteSets, TLC

VARIABLES
    text,             \* argument of _clean_text / _extract_experience
    cleaned,          \* _clean_text(text)
    recleaned,        \* _clean_text(_clean_text(text))
    experience,       \* _extract_experience(text)
    uploaded_files,   \* main: st.file_uploader(...)
    job_description,  \* main: st.text_area(...) / rank_resumes argument
    idx,              \* main: position of the for loop over uploaded_files
    tmp_files,        \* temporary files that exist on disk
    resumes,          \* main: resumes / rank_resumes argument
    vocabulary,       \* rank_resumes: vectorizer.vocabulary_ after fit
    scores,           \* rank_resumes: scores
    ranked_resumes,   \* rank_resumes: return value
    analysed,         \* main: records shown under "Resume Analysis"
    error,            \* the exception that ended the run, or "none"
    pc                \* control position

vars == <<text, cleaned, recleaned, experience, uploaded_files,
          job_description, idx, tmp_files, resumes, vocabulary, scores,
          ranked_resumes, analysed, error, pc>>

---------------------------------------------------------------------------
(* Characters *)

UpperLetters ==
    <<"A","B","C","D","E","F","G","H","I","J","K","L","M",
      "N","O","P","Q","R","S","T","U","V","W","X","Y","Z">>

LowerLetters ==
    <<"a","b","c","d","e","f","g","h","i","j","k","l","m",
      "n","o","p","q","r","s","t","u","v","w","x","y","z">>

UpperSet == {UpperLetters[i] : i \in 1..26}

LowerSet == {LowerLetters[i] : i \in 1..26}

DigitSet == {"0","1","2","3","4","5","6","7","8","9"}

\* str.lower() of one character
ToLower(c) ==
    IF c \in UpperSet
    THEN LowerLetters[CHOOSE i \in 1..26 : UpperLetters[i] = c]
    ELSE c

\* str.lower()
Lower(s) == [i \in 1..Len(s) |-> ToLower(s[i])]

\* the regex class \s (and the characters str.strip() removes)
IsSpace(c) == c \in {" ", "\t", "\n", "\r"}

\* the regex class \w
IsWordChar(c) == c \in UpperSet \cup LowerSet \cup DigitSet \cup {"_"}

\* the regex class [^a-zA-Z0-9\s\.\-,] complemented: what line 48 keeps
KeptChar(c) ==
    \/ c \in UpperSet \cup LowerSet \cup DigitSet
    \/ IsSpace(c)
    \/ c \in {".", "-", ","}

\* s[i:j] with 1-based i and exclusive j
Slice(s, i, j) == IF j <= i THEN <<>> ELSE SubSeq(s, i, j - 1)

RECURSIVE Concat(_)
\* ''.join(parts)
Concat(parts) ==
    IF parts = <<>> THEN <<>> ELSE Head(parts) \o Concat(Tail(parts))

---------------------------------------------------------------------------
(* ResumeParser._clean_text *)

RECURSIVE CollapseFrom(_, _)
\* re.sub('\s+', ' ', text): every maximal run of \s becomes one space
CollapseFrom(s, i) ==
    IF i > Len(s) THEN <<>>
    ELSE IF IsSpace(s[i])
         THEN IF i > 1 /\ IsSpace(s[i - 1])
              THEN CollapseFrom(s, i + 1)
              ELSE <<" ">> \o CollapseFrom(s, i + 1)
         ELSE <<s[i]>> \o CollapseFrom(s, i + 1)

CollapseWhitespace(s) == CollapseFrom(s, 1)

\* re.sub('[^a-zA-Z0-9\s\.\-,]', '', text)
RemoveDisallowed(s) == SelectSeq(s, KeptChar)

RECURSIVE LStrip(_)
LStrip(s) ==
    IF s # <<>> /\ IsSpace(Head(s)) THEN LStrip(Tail(s)) ELSE s

RECURSIVE RStrip(_)
RStrip(s) ==
    IF s # <<>> /\ IsSpace(s[Len(s)])
    THEN RStrip(SubSeq(s, 1, Len(s) - 1))
    ELSE s

\* str.strip()
Strip(s) == RStrip(LStrip(s))

_clean_text(s) == Strip(RemoveDisallowed(CollapseWhitespace(s)))

---------------------------------------------------------------------------
(* ResumeParser._extract_experience                                        *)
(*                                                                         *)
(*   (?i)((?:Jan|...|Dec)[a-z\s\-,]*\d{4})[\s<en dash>\-]+                    *)
(*       (present|(?:Jan|...|Dec)[a-z\s\-,]*\d{4})                         *)
(*                                                                         *)
(* Positions are 1-based; an end position is exclusive; 0 is "no match".   *)

\* the alternation Jan|Feb|...|Dec, lower-cased (the pattern is (?i))
MonthTokens ==
    << <<"j","a","n">>, <<"f","e","b">>, <<"m","a","r">>, <<"a","p","r">>,
       <<"m","a","y">>, <<"j","u","n">>, <<"j","u","l">>, <<"a","u","g">>,
       <<"s","e","p">>, <<"o","c","t">>, <<"n","o","v">>, <<"d","e","c">> >>

PresentToken == <<"p","r","e","s","e","n","t">>

\* number of digits of \d{4}
YearDigits == 4

\* a literal of the pattern matches at i, ignoring case
LiteralAt(s, i, lit) ==
    /\ i >= 1
    /\ i + Len(lit) - 1 <= Len(s)
    /\ \A k \in 1..Len(lit) : ToLower(s[i + k - 1]) = lit[k]

MonthAt(s, i) == \E m \in 1..Len(MonthTokens) : LiteralAt(s, i, MonthTokens[m])

\* the class [a-z\s\-,] under (?i)
FillChar(c) == c \in LowerSet \cup UpperSet \/ IsSpace(c) \/ c \in {"-", ","}

\* the class [\s<en dash>\-] (whitespace, en dash, hyphen)
SepChar(c) == IsSpace(c) \/ c \in {"endash", "-"}

\* \d{4} matches at p
YearAt(s, p) ==
    /\ p >= 1
    /\ p + YearDigits - 1 <= Len(s)
    /\ \A k \in 0..YearDigits - 1 : s[p + k] \in DigitSet

RECURSIVE FillEnd(_, _)
\* where the greedy [a-z\s\-,]* started at i stops
FillEnd(s, i) ==
    IF i <= Len(s) /\ FillChar(s[i]) THEN FillEnd(s, i + 1) ELSE i

RECURSIVE SepEnd(_, _)
\* where the greedy [\s<en dash>\-]+ started at i stops
SepEnd(s, i) ==
    IF i <= Len(s) /\ SepChar(s[i]) THEN SepEnd(s, i + 1) ELSE i

RECURSIVE LastDateTry(_, _, _)
\* the closing month...year: the fill gives characters back from p down to lo
LastDateTry(s, lo, p) ==
    IF YearAt(s, p) THEN p + YearDigits
    ELSE IF p = lo THEN 0
    ELSE LastDateTry(s, lo, p - 1)

\* group 2: present | month...year, the alternatives tried in this order
Group2End(s, r) ==
    IF LiteralAt(s, r, PresentToken) THEN r + Len(PresentToken)
    ELSE IF MonthAt(s, r) THEN LastDateTry(s, r + 3, FillEnd(s, r + 3))
    ELSE 0

RECURSIVE SepTry(_, _, _)
\* the separator gives characters back from m down to one character (lo)
SepTry(s, lo, m) ==
    IF m < lo THEN 0
    ELSE IF Group2End(s, m) # 0 THEN Group2End(s, m)
    ELSE SepTry(s, lo, m - 1)

RECURSIVE FillTry(_, _, _)
\* group 1's fill gives characters back from p down to lo
FillTry(s, lo, p) ==
    LET q == p + YearDigits
        e == IF YearAt(s, p) THEN SepTry(s, q + 1, SepEnd(s, q)) ELSE 0
    IN  IF e # 0 THEN e
        ELSE IF p = lo THEN 0
        ELSE FillTry(s, lo, p - 1)

\* end of the match of the pattern that starts at i
MatchEnd(s, i) ==
    IF MonthAt(s, i) THEN FillTry(s, i + 3, FillEnd(s, i + 3)) ELSE 0

RECURSIVE FindIter(_, _)
\* [match.group().strip() for match in re.finditer(pattern, text)]
FindIter(s, i) ==
    IF i > Len(s) THEN <<>>
    ELSE LET e == MatchEnd(s, i)
         IN  IF e # 0
             THEN <<Strip(Slice(s, i, e))>> \o FindIter(s, e)
             ELSE FindIter(s, i + 1)

\* re.search in place of re.finditer: the first match alone
FirstMatchOnly(s) ==
    IF FindIter(s, 1) = <<>> THEN <<>> ELSE <<Head(FindIter(s, 1))>>

_extract_experience(s) == FindIter(s, 1)

---------------------------------------------------------------------------
(* ResumeParser.rank_resumes                                               *)
(*                                                                         *)
(* TfidfVectorizer() with its defaults: the text is lower-cased, a term is *)
(* a match of \b\w\w+\b, the vector of a document holds tf * idf per term  *)
(* of the fitted vocabulary, l2-normalised.  The vectorizer is fitted on   *)
(* the one document [job_description], so every idf is                     *)
(* ln((1 + 1) / (1 + 1)) + 1 = 1 and a weight is the term's count.         *)
(*                                                                         *)
(* A score is the pair <<n, d>> standing for the real number sqrt(n / d):  *)
(* the cosine of two non-negative vectors, squared, as an exact fraction.  *)
(* <<0, 0>> is the undefined quotient 0 / 0.                               *)

RECURSIVE WordEnd(_, _)
\* where the run of \w characters started at i stops
WordEnd(s, i) ==
    IF i <= Len(s) /\ IsWordChar(s[i]) THEN WordEnd(s, i + 1) ELSE i

RECURSIVE TermsFrom(_, _)
\* re.findall(r"(?u)\b\w\w+\b", s) from position i on
TermsFrom(s, i) ==
    IF i > Len(s) THEN <<>>
    ELSE IF ~IsWordChar(s[i]) THEN TermsFrom(s, i + 1)
    ELSE LET e == WordEnd(s, i)
         IN  IF e - i >= 2
             THEN <<Slice(s, i, e)>> \o TermsFrom(s, e)
             ELSE TermsFrom(s, e)

\* the vectorizer's analyzer: lower-case, then tokenize
Analyze(s) == TermsFrom(Lower(s), 1)

\* term frequency of t in an analysed document
TermCount(t, terms) == Cardinality({k \in 1..Len(terms) : terms[k] = t})

RECURSIVE SumOver(_, _, _, _)
\* the sum over the terms t of T of a[t] * b[t]
SumOver(T, a, b, acc) ==
    IF T = {} THEN acc
    ELSE LET t == CHOOSE x \in T : TRUE
         IN  SumOver(T \ {t}, a, b,
                     acc + TermCount(t, a) * TermCount(t, b))

\* vectorizer.fit: the vocabulary of the job description
FitVocabulary(jd) ==
    LET terms == Analyze(jd) IN {terms[k] : k \in 1..Len(terms)}

\* fit_transform raises ValueError("empty vocabulary; ...") when no term is
\* found
EmptyVocabularyNever(vocab) == FALSE

EmptyVocabulary(vocab) == vocab = {}

\* a division without the zero-norm guard
CosineUnguarded(vocab, jd, rt) ==
    LET a == Analyze(jd)
        b == Analyze(rt)
        dot == SumOver(vocab, a, b, 0)
    IN  <<dot * dot, SumOver(vocab, a, a, 0) * SumOver(vocab, b, b, 0)>>

\* cosine_similarity(job_vec, vectorizer.transform([raw_text]))[0][0]:
\* a row of norm zero is left as it is by the normalisation, so that its
\* product with any row is 0
Cosine(vocab, jd, rt) ==
    LET a == Analyze(jd)
        b == Analyze(rt)
        dot == SumOver(vocab, a, b, 0)
        na == SumOver(vocab, a, a, 0)
        nb == SumOver(vocab, b, b, 0)
    IN  IF na = 0 \/ nb = 0 THEN <<0, 1>> ELSE <<dot * dot, na * nb>>

\* x < y, x = y on scores that are defined
ScoreLess(x, y) == x[1] * y[2] < y[1] * x[2]

ScoreEqual(x, y) == x[1] * y[2] = y[1] * x[2]

\* zip(resumes, scores)
Zip(rs, sc) == [k \in 1..Len(rs) |-> <<rs[k], sc[k]>>]

RECURSIVE InsertBeforeTies(_, _)
\* descending order got by reversing an ascending sort: ties end up reversed
InsertBeforeTies(x, sorted) ==
    IF sorted = <<>> THEN <<x>>
    ELSE IF ScoreLess(x[2], Head(sorted)[2])
         THEN <<Head(sorted)>> \o InsertBeforeTies(x, Tail(sorted))
         ELSE <<x>> \o sorted

RECURSIVE InsertDescending(_, _)
\* x goes after every element whose key is not smaller than its own
InsertDescending(x, sorted) ==
    IF sorted = <<>> THEN <<x>>
    ELSE IF ScoreLess(Head(sorted)[2], x[2])
         THEN <<x>> \o sorted
         ELSE <<Head(sorted)>> \o InsertDescending(x, Tail(sorted))

RECURSIVE SortedFrom(_, _, _)
SortedFrom(pairs, k, acc) ==
    IF k > Len(pairs) THEN acc
    ELSE SortedFrom(pairs, k + 1, InsertDescending(pairs[k], acc))

\* sorted(pairs, key=lambda x: x[1], reverse=True): a stable sort, and
\* reverse=True keeps the original order of elements with equal keys
SortedByScore(pairs) == SortedFrom(pairs, 1, <<>>)

\* vectorizer = TfidfVectorizer(); job_vec = vectorizer.fit_transform(...)
RankFit ==
    /\ pc = "rank"
    /\ IF EmptyVocabulary(FitVocabulary(job_description))
       THEN /\ error' = "ValueError"
            /\ pc' = "raised"
            /\ UNCHANGED vocabulary
       ELSE /\ vocabulary' = FitVocabulary(job_description)
            /\ pc' = "score"
            /\ UNCHANGED error
    /\ UNCHANGED <<text, cleaned, recleaned, experience, uploaded_files,
                   job_description, idx, tmp_files, resumes, scores,
                   ranked_resumes, analysed>>

\* one iteration of: for resume in resumes
RankScore ==
    /\ pc = "score"
    /\ Len(scores) < Len(resumes)
    /\ scores' = Append(scores,
                        Cosine(vocabulary, job_description,
                               resumes[Len(scores) + 1].raw_text))
    /\ UNCHANGED <<text, cleaned, recleaned, experience, uploaded_files,
                   job_description, idx, tmp_files, resumes, vocabulary,
                   ranked_resumes, analysed, error, pc>>

\* ranked_resumes = sorted(zip(resumes, scores), ...); return ranked_resumes
RankSort ==
    /\ pc = "score"
    /\ Len(scores) = Len(resumes)
    /\ ranked_resumes' = SortedByScore(Zip(resumes, scores))
    /\ pc' = "ranked"
    /\ UNCHANGED <<text, cleaned, recleaned, experience, uploaded_files,
                   job_description, idx, tmp_files, resumes, vocabulary,
                   scores, analysed, error>>

---------------------------------------------------------------------------
(* ResumeParser._add_custom_patterns and self.nlp(text)                    *)
(*                                                                         *)
(* The entity ruler is given phrase patterns (strings), matched on the     *)
(* tokens' exact text (phrase_matcher_attr None).  The tokenizer is        *)
(* modelled on the characters _clean_text leaves: tokens are separated by  *)
(* a space, a further space is a token of its own, "," and "-" are tokens  *)
(* of their own, and a "." that ends a chunk is split off.  The ruler      *)
(* keeps the longest match, then the one that starts first, and drops a    *)
(* match that overlaps one it kept.  The statistical components of the     *)
(* pipeline give no span the label SKILL or DEGREE and are left out.       *)

Patterns ==
    << [label |-> "DEGREE", pattern |-> <<"B","S">>],
       [label |-> "DEGREE", pattern |-> <<"B",".","S","c">>],
       [label |-> "DEGREE", pattern |-> <<"B","a","c","h","e","l","o","r","s">>],
       [label |-> "DEGREE", pattern |-> <<"M","a","s","t","e","r","s">>],
       [label |-> "DEGREE", pattern |-> <<"P","h","D">>],
       [label |-> "SKILL",  pattern |-> <<"P","y","t","h","o","n">>],
       [label |-> "SKILL",
        pattern |-> <<"M","a","c","h","i","n","e"," ",
                      "L","e","a","r","n","i","n","g">>],
       [label |-> "SKILL",  pattern |-> <<"S","Q","L">>] >>

TokenBreak(c) == c \in {" ", ",", "-"}

RECURSIVE ChunkEnd(_, _)
ChunkEnd(s, i) ==
    IF i <= Len(s) /\ ~TokenBreak(s[i]) THEN ChunkEnd(s, i + 1) ELSE i

RECURSIVE TokensFrom(_, _)
\* the tokens of s from position i on, each a pair <<start, end>>
TokensFrom(s, i) ==
    IF i > Len(s) THEN <<>>
    ELSE IF s[i] = " "
         THEN IF i = 1 \/ s[i - 1] = " "
              THEN << <<i, i + 1>> >> \o TokensFrom(s, i + 1)
              ELSE TokensFrom(s, i + 1)
    ELSE IF TokenBreak(s[i])
         THEN << <<i, i + 1>> >> \o TokensFrom(s, i + 1)
    ELSE LET e == ChunkEnd(s, i)
         IN  IF e - i >= 2 /\ s[e - 1] = "."
             THEN << <<i, e - 1>>, <<e - 1, e>> >> \o TokensFrom(s, e)
             ELSE << <<i, e>> >> \o TokensFrom(s, e)

Tokenize(s) == TokensFrom(s, 1)

TokenTexts(s) ==
    LET toks == Tokenize(s)
    IN  [k \in 1..Len(toks) |-> Slice(s, toks[k][1], toks[k][2])]

\* the tokens of each phrase pattern (the ruler tokenizes them as it does text)
PatternTokens == [p \in 1..Len(Patterns) |-> TokenTexts(Patterns[p].pattern)]

\* the phrase matcher: <<p, a, b>> when pattern p matches tokens a..b-1
PhraseMatches(s) ==
    LET toks == TokenTexts(s)
    IN  UNION {{<<p, a, a + Len(PatternTokens[p])>> :
                   a \in {a \in 1..Len(toks) - Len(PatternTokens[p]) + 1 :
                             \A k \in 1..Len(PatternTokens[p]) :
                                 toks[a + k - 1] = PatternTokens[p][k]}} :
               p \in 1..Len(Patterns)}

\* sort key of EntityRuler.match: longer first, then earlier start
Precedes(m, n) ==
    \/ m[3] - m[2] > n[3] - n[2]
    \/ m[3] - m[2] = n[3] - n[2] /\ m[2] <= n[2]

Overlap(m, n) == m[2] < n[3] /\ n[2] < m[3]

RECURSIVE KeepMatches(_, _)
\* EntityRuler.set_annotations: a match is kept unless it overlaps a match
\* kept before it
KeepMatches(matches, kept) ==
    IF matches = {} THEN kept
    ELSE LET best == CHOOSE m \in matches : \A n \in matches : Precedes(m, n)
         IN  KeepMatches({n \in matches : ~Overlap(best, n)},
                         kept \cup {best})

\* doc.ents restricted to the ruler's labels: records [text, label]
Entities(s) ==
    LET toks == Tokenize(s)
    IN  {[text |-> Slice(s, toks[m[2]][1], toks[m[3] - 1][2]),
          label |-> Patterns[m[1]].label,
          start |-> m[2]] : m \in KeepMatches(PhraseMatches(s), {})}

\* [ent.text for ent in doc.ents if ent.label_ == label], in document order
RECURSIVE EntTextsFrom(_, _, _)
EntTextsFrom(ents, label, k) ==
    IF \A e \in ents : e.start < k THEN <<>>
    ELSE IF \E e \in ents : e.start = k /\ e.label = label
         THEN <<(CHOOSE e \in ents : e.start = k).text>>
                  \o EntTextsFrom(ents, label, k + 1)
         ELSE EntTextsFrom(ents, label, k + 1)

EntTexts(s, label) == EntTextsFrom(Entities(s), label, 1)

\* every order of the elements of S
Orderings(S) ==
    {f \in [1..Cardinality(S) -> S] :
        \A i, j \in 1..Cardinality(S) : f[i] = f[j] => i = j}

\* list(texts): every occurrence kept
ListAll(texts) == {texts}

\* list(set(texts)): one entry per distinct text; the order of a set of
\* str is not fixed (hash randomisation), so every order is possible
ListOfSet(texts) == Orderings({texts[k] : k \in 1..Len(texts)})

---------------------------------------------------------------------------
(* ResumeParser.extract_text and ResumeParser.parse_resume                 *)
(*                                                                         *)
(* An uploaded file is [name, readable, pages]; a page is [none, text]:    *)
(* page.extract_text() returns None for a page without a text layer.       *)

RECURSIVE JoinLines(_)
\* '\n'.join(parts)
JoinLines(parts) ==
    IF parts = <<>> THEN <<>>
    ELSE IF Len(parts) = 1 THEN Head(parts)
    ELSE Head(parts) \o <<"\n">> \o JoinLines(Tail(parts))

\* the exception extract_text raises on this file, or "none":
\* pdfplumber.open fails on an unreadable document, and str.join raises
\* TypeError on None
ExtractError(file) ==
    IF ~file.readable THEN "PdfOpenError"
    ELSE IF \E k \in 1..Len(file.pages) : file.pages[k].none THEN "TypeError"
    ELSE "none"

extract_text(file) ==
    JoinLines([k \in 1..Len(file.pages) |-> file.pages[k].text])

\* the records parse_resume can return for the extracted text
parse_resume(raw) ==
    LET t == _clean_text(raw)
    IN  {[skills |-> sk, education |-> ed,
          experience |-> _extract_experience(t), raw_text |-> t] :
            sk \in ListOfSet(EntTexts(t, "SKILL")),
            ed \in ListOfSet(EntTexts(t, "DEGREE"))}

RECURSIVE LastDot(_, _)
\* str.rfind('.') on s[:k], 0 when there is none
LastDot(s, k) ==
    IF k = 0 THEN 0 ELSE IF s[k] = "." THEN k ELSE LastDot(s, k - 1)

\* os.path.splitext(name)[0] of a name without a directory part: the
\* extension starts at the last dot, unless only dots precede that dot
SplitExtRoot(name) ==
    LET d == LastDot(name, Len(name))
    IN  IF d > 0 /\ \E k \in 1..d - 1 : name[k] # "."
        THEN Slice(name, 1, d)
        ELSE name

---------------------------------------------------------------------------
(* main                                                                    *)

\* if uploaded_files and st.button("Analyze Resumes"): resumes = []
Start ==
    /\ pc = "start"
    /\ IF uploaded_files = <<>>
       THEN pc' = "done" /\ UNCHANGED idx
       ELSE pc' = "create" /\ idx' = 1
    /\ UNCHANGED <<text, cleaned, recleaned, experience, uploaded_files,
                   job_description, tmp_files, resumes, vocabulary, scores,
                   ranked_resumes, analysed, error>>

\* with tempfile.NamedTemporaryFile(delete=False) as tmp_file:
\*     tmp_file.write(uploaded_file.getvalue())
CreateTmp ==
    /\ pc = "create"
    /\ tmp_files' = tmp_files \cup {idx}
    /\ pc' = "parse"
    /\ UNCHANGED <<text, cleaned, recleaned, experience, uploaded_files,
                   job_description, idx, resumes, vocabulary, scores,
                   ranked_resumes, analysed, error>>

\* data = parser.parse_resume(tmp_file.name); data['name'] = ...;
\* resumes.append(data).  An exception of extract_text leaves the with
\* block (the file is closed, not deleted) and main: nothing catches it.
Parse ==
    /\ pc = "parse"
    /\ IF ExtractError(uploaded_files[idx]) # "none"
       THEN /\ error' = ExtractError(uploaded_files[idx])
            /\ pc' = "raised"
            /\ UNCHANGED resumes
       ELSE /\ \E data \in parse_resume(extract_text(uploaded_files[idx])) :
                  resumes' = Append(resumes,
                      [name |-> SplitExtRoot(uploaded_files[idx].name),
                       skills |-> data.skills,
                       education |-> data.education,
                       experience |-> data.experience,
                       raw_text |-> data.raw_text])
            /\ pc' = "unlink"
            /\ UNCHANGED error
    /\ UNCHANGED <<text, cleaned, recleaned, experience, uploaded_files,
                   job_description, idx, tmp_files, vocabulary, scores,
                   ranked_resumes, analysed>>

\* os.unlink(tmp_file.name), then the next uploaded file
Unlink ==
    /\ pc = "unlink"
    /\ tmp_files' = tmp_files \ {idx}
    /\ IF idx < Len(uploaded_files)
       THEN idx' = idx + 1 /\ pc' = "create"
       ELSE UNCHANGED idx /\ pc' = "check_jd"
    /\ UNCHANGED <<text, cleaned, recleaned, experience, uploaded_files,
                   job_description, resumes, vocabulary, scores,
                   ranked_resumes, analysed, error>>

\* if job_description.strip(): ranked_resumes = parser.rank_resumes(...)
CheckJobDescription ==
    /\ pc = "check_jd"
    /\ pc' = IF Strip(job_description) # <<>> THEN "rank" ELSE "analysis"
    /\ UNCHANGED <<text, cleaned, recleaned, experience, uploaded_files,
                   job_description, idx, tmp_files, resumes, vocabulary,
                   scores, ranked_resumes, analysed, error>>

\* st.subheader("Ranking Results") and the lines of the ranking
ShowRanking ==
    /\ pc = "ranked"
    /\ pc' = "analysis"
    /\ UNCHANGED <<text, cleaned, recleaned, experience, uploaded_files,
                   job_description, idx, tmp_files, resumes, vocabulary,
                   scores, ranked_resumes, analysed, error>>

\* st.subheader("Resume Analysis"); for resume in resumes: ...
ShowAnalysis ==
    /\ pc = "analysis"
    /\ analysed' = resumes
    /\ pc' = "done"
    /\ UNCHANGED <<text, cleaned, recleaned, experience, uploaded_files,
                   job_description, idx, tmp_files, resumes, vocabulary,
                   scores, ranked_resumes, error>>

---------------------------------------------------------------------------
(* Inputs of the normalisation specification *)

\* longest string given to _clean_text
MaxCleanLen == 5

CleanAlphabet == {"a", " ", "\n", "@", "."}

RECURSIVE SeqsUpTo(_, _)
\* every sequence over S of length at most n
SeqsUpTo(S, n) ==
    IF n = 0 THEN {<<>>}
    ELSE LET shorter == SeqsUpTo(S, n - 1)
         IN  shorter \cup {Append(s, c) : s \in shorter, c \in S}

CleanInputs == SeqsUpTo(CleanAlphabet, MaxCleanLen)

Idle ==
    /\ uploaded_files = <<>>
    /\ job_description = <<>>
    /\ idx = 0
    /\ tmp_files = {}
    /\ resumes = <<>>
    /\ vocabulary = {}
    /\ scores = <<>>
    /\ ranked_resumes = <<>>
    /\ analysed = <<>>
    /\ error = "none"

InitClean ==
    /\ text \in CleanInputs
    /\ cleaned = <<>>
    /\ recleaned = <<>>
    /\ experience = <<>>
    /\ Idle
    /\ pc = "clean"

\* text = self._clean_text(text)
Clean ==
    /\ pc = "clean"
    /\ cleaned' = _clean_text(text)
    /\ pc' = "clean_again"
    /\ UNCHANGED <<text, recleaned, experience, uploaded_files,
                   job_description, idx, tmp_files, resumes, vocabulary,
                   scores, ranked_resumes, analysed, error>>

\* _clean_text applied to its own result
CleanAgain ==
    /\ pc = "clean_again"
    /\ recleaned' = _clean_text(cleaned)
    /\ pc' = "cleaned"
    /\ UNCHANGED <<text, cleaned, experience, uploaded_files,
                   job_description, idx, tmp_files, resumes, vocabulary,
                   scores, ranked_resumes, analysed, error>>

NextClean == Clean \/ CleanAgain

SpecClean == InitClean /\ [][NextClean]_vars

---------------------------------------------------------------------------
(* Inputs of the experience-extraction specification *)

W_Jan2019 == <<"J","a","n"," ","2","0","1","9">>

W_Mar2020 == <<"M","a","r"," ","2","0","2","0">>

W_Apr2021 == <<"A","p","r"," ","2","0","2","1">>

W_Dash == <<" ","-"," ">>

W_Present == <<"P","r","e","s","e","n","t">>

W_SomeText == <<" ","s","o","m","e"," ","t","e","x","t"," ">>

\* "Jan 2019 - Present some text Mar 2020 - Apr 2021"
ExampleText ==
    Concat(<<W_Jan2019, W_Dash, W_Present, W_SomeText,
             W_Mar2020, W_Dash, W_Apr2021>>)

\* "Jan 2019 - Present Jan 2019 - Present"
RepeatedText ==
    Concat(<<W_Jan2019, W_Dash, W_Present, <<" ">>,
             W_Jan2019, W_Dash, W_Present>>)

\* "Jan 2019 <en dash> Mar 2020 - Present"
ChainedText ==
    Concat(<<W_Jan2019, <<" ","endash"," ">>, W_Mar2020, W_Dash, W_Present>>)

\* the pieces the enumerated texts are concatenated from
ExpPieces ==
    {W_Jan2019, W_Dash, W_Present, <<"m","a","y">>, <<"1","9","9","9">>,
     <<"t">>}

\* most pieces in an enumerated text
MaxExpPieces == 4

ExpInputs ==
    {Concat(ps) : ps \in SeqsUpTo(ExpPieces, MaxExpPieces)}
        \cup {ExampleText, RepeatedText, ChainedText}

InitExp ==
    /\ text \in ExpInputs
    /\ cleaned = <<>>
    /\ recleaned = <<>>
    /\ experience = <<>>
    /\ Idle
    /\ pc = "extract"

\* 'experience': self._extract_experience(text)
Extract ==
    /\ pc = "extract"
    /\ experience' = _extract_experience(text)
    /\ pc' = "extracted"
    /\ UNCHANGED <<text, cleaned, recleaned, uploaded_files,
                   job_description, idx, tmp_files, resumes, vocabulary,
                   scores, ranked_resumes, analysed, error>>

NextExp == Extract

SpecExp == InitExp /\ [][NextExp]_vars

---------------------------------------------------------------------------
(* Inputs of the ranking specification *)

W_Python == <<"P","y","t","h","o","n">>

W_SQL == <<"S","Q","L">>

W_Machine == <<"M","a","c","h","i","n","e">>

W_Learning == <<"L","e","a","r","n","i","n","g">>

W_Masters == <<"M","a","s","t","e","r","s">>

W_Excel == <<"E","x","c","e","l">>

W_PowerPoint == <<"P","o","w","e","r","P","o","i","n","t">>

W_developer == <<"d","e","v","e","l","o","p","e","r">>

W_needed == <<"n","e","e","d","e","d">>

Sp == <<" ">>

\* "Python SQL Machine Learning"
T_PythonSqlMl == Concat(<<W_Python, Sp, W_SQL, Sp, W_Machine, Sp, W_Learning>>)

\* "Excel PowerPoint"
T_ExcelPowerPoint == Concat(<<W_Excel, Sp, W_PowerPoint>>)

\* "Python Python"
T_PythonPython == Concat(<<W_Python, Sp, W_Python>>)

\* "python, Python SQL"
T_PythonPythonSql ==
    Concat(<<Lower(W_Python), <<",", " ">>, W_Python, Sp, W_SQL>>)

\* "Python SQL developer needed"
JD_Developer == Concat(<<W_Python, Sp, W_SQL, Sp, W_developer, Sp, W_needed>>)

\* "SQL"
JD_Sql == W_SQL

\* " \n"
JD_Blank == <<" ", "\n">>

\* "a -": not blank, and without a term of two characters
JD_NoTerm == <<"a", " ", "-">>

JobDescriptions == {<<>>, JD_Blank, JD_NoTerm, JD_Sql, JD_Developer}

RankTexts == {T_PythonSqlMl, T_ExcelPowerPoint, T_PythonPython,
              T_PythonPythonSql, <<>>}

\* most records given to rank_resumes
MaxResumes == 3

\* the records of a call of rank_resumes: the k-th is named k
RankInputs ==
    UNION {{[k \in 1..n |-> [name |-> k, raw_text |-> ts[k]]] :
               ts \in [1..n -> RankTexts]} : n \in 0..MaxResumes}

InitRank ==
    /\ text = <<>>
    /\ cleaned = <<>>
    /\ recleaned = <<>>
    /\ experience = <<>>
    /\ uploaded_files = <<>>
    /\ job_description \in JobDescriptions
    /\ idx = 0
    /\ tmp_files = {}
    /\ resumes \in RankInputs
    /\ vocabulary = {}
    /\ scores = <<>>
    /\ ranked_resumes = <<>>
    /\ analysed = <<>>
    /\ error = "none"
    /\ pc = "rank"

NextRank == RankFit \/ RankScore \/ RankSort

SpecRank == InitRank /\ [][NextRank]_vars

---------------------------------------------------------------------------
(* Inputs of main *)

Page(t) == [none |-> FALSE, text |-> t]

\* a page without a text layer
BlankPage == [none |-> TRUE, text |-> <<>>]

\* "a.pdf": "Python  Python" and "SQL, Masters (Jan 2019 - Present)"
F_Skills ==
    [name |-> <<"a",".","p","d","f">>, readable |-> TRUE,
     pages |-> << Page(Concat(<<W_Python, Sp, Sp, W_Python>>)),
                  Page(Concat(<<W_SQL, <<",", " ">>, W_Masters, <<" ", "(">>,
                                W_Jan2019, W_Dash, W_Present, <<")">> >>)) >>]

\* "b.pdf": "Python Python"
F_PythonPython ==
    [name |-> <<"b",".","p","d","f">>, readable |-> TRUE,
     pages |-> << Page(T_PythonPython) >>]

\* "c.v.pdf": "Excel" and "PowerPoint"
F_Excel ==
    [name |-> <<"c",".","v",".","p","d","f">>, readable |-> TRUE,
     pages |-> << Page(W_Excel), Page(W_PowerPoint) >>]

\* "d.pdf": not a readable PDF
F_Corrupt ==
    [name |-> <<"d",".","p","d","f">>, readable |-> FALSE, pages |-> <<>>]

\* "e.pdf": a text page and a scanned page
F_Scanned ==
    [name |-> <<"e",".","p","d","f">>, readable |-> TRUE,
     pages |-> << Page(W_SQL), BlankPage >>]

Uploads == {F_Skills, F_PythonPython, F_Excel, F_Corrupt, F_Scanned}

\* most files uploaded in one run
MaxFiles == 2

Init ==
    /\ text = <<>>
    /\ cleaned = <<>>
    /\ recleaned = <<>>
    /\ experience = <<>>
    /\ uploaded_files \in SeqsUpTo(Uploads, MaxFiles)
    /\ job_description \in {JD_Blank, JD_NoTerm, JD_Developer}
    /\ idx = 0
    /\ tmp_files = {}
    /\ resumes = <<>>
    /\ vocabulary = {}
    /\ scores = <<>>
    /\ ranked_resumes = <<>>
    /\ analysed = <<>>
    /\ error = "none"
    /\ pc = "start"

Next ==
    \/ Start
    \/ CreateTmp
    \/ Parse
    \/ Unlink
    \/ CheckJobDescription
    \/ RankFit
    \/ RankScore
    \/ RankSort
    \/ ShowRanking
    \/ ShowAnalysis

Spec == Init /\ [][Next]_vars

---------------------------------------------------------------------------
(* The date-range grammar, stated without a matching order *)

\* s[i..j) is <MonthToken> [letters/spaces/hyphens/commas]* <4-digit year>
IsDate(s, i, j) ==
    /\ MonthAt(s, i)
    /\ j - YearDigits >= i + 3
    /\ j - 1 <= Len(s)
    /\ \A k \in i + 3..j - YearDigits - 1 : FillChar(s[k])
    /\ \A k \in j - YearDigits..j - 1 : s[k] \in DigitSet

\* s[i..j) is <date> <one or more of space, en dash, hyphen> <present|date>
IsRange(s, i, j) ==
    /\ MonthAt(s, i)
    /\ \E p \in i + 3..j :
          /\ IsDate(s, i, p)
          /\ \E q \in p + 1..j :
                /\ \A k \in p..q - 1 : SepChar(s[k])
                /\ \/ LiteralAt(s, q, PresentToken)
                      /\ j = q + Len(PresentToken)
                   \/ IsDate(s, q, j)

RangeStarts(s, from) ==
    {i \in from..Len(s) : \E j \in i..Len(s) + 1 : IsRange(s, i, j)}

Min(S) == CHOOSE x \in S : \A y \in S : x <= y

RECURSIVE IsLeftToRightScan(_, _, _)
\* out lists, in order, the non-overlapping ranges of s found from `from` on:
\* each begins at the first position where a range begins at or after the end
\* of the one before it
IsLeftToRightScan(s, from, out) ==
    LET starts == RangeStarts(s, from)
    IN  IF starts = {} THEN out = <<>>
        ELSE /\ out # <<>>
             /\ \E j \in Min(starts)..Len(s) + 1 :
                   /\ IsRange(s, Min(starts), j)
                   /\ Head(out) = Slice(s, Min(starts), j)
                   /\ IsLeftToRightScan(s, j, Tail(out))

---------------------------------------------------------------------------
(* Claims *)

\* C7: _extract_experience returns every non-overlapping match of the
\* date-range grammar, scanning left to right, as a trimmed substring in
\* order of appearance and without collapsing duplicates; the text
\* "Jan 2019 - Present some text Mar 2020 - Apr 2021" yields exactly
\* "Jan 2019 - Present" and "Mar 2020 - Apr 2021" in that order, and a text
\* with no month token yields the empty sequence.
C7_ExperienceScan ==
    pc = "extracted" =>
        /\ IsLeftToRightScan(text, 1, experience)
        /\ \A k \in 1..Len(experience) : Strip(experience[k]) = experience[k]
        /\ text = ExampleText =>
              experience = << Concat(<<W_Jan2019, W_Dash, W_Present>>),
                              Concat(<<W_Mar2020, W_Dash, W_Apr2021>>) >>
        /\ (\A i \in 1..Len(text) : ~MonthAt(text, i)) => experience = <<>>

\* C7 witness: a text with the same range twice has been scanned, and both
\* occurrences are in the result
C7_Witness ==
    /\ pc = "extracted"
    /\ text = RepeatedText
    /\ Len(experience) = 2
    /\ experience[1] = experience[2]

\* str.strip() leaves nothing
IsBlank(s) == Strip(s) = <<>>

\* the position in resumes of the record of the k-th ranked pair
InputPosition(k) ==
    CHOOSE i \in 1..Len(resumes) : resumes[i] = ranked_resumes[k][1]

\* C3: rank_resumes returns the (record, score) pairs sorted by score
\* descending, and two records with equal scores keep the relative order
\* they have in the input sequence.
C3_StableDescending ==
    pc = "ranked" =>
        /\ Len(ranked_resumes) = Len(resumes)
        /\ \A k \in 1..Len(ranked_resumes) :
              /\ \E i \in 1..Len(resumes) : resumes[i] = ranked_resumes[k][1]
              /\ ranked_resumes[k][2] = scores[InputPosition(k)]
        /\ \A k \in 1..Len(ranked_resumes) : \A l \in k + 1..Len(ranked_resumes) :
              /\ ~ScoreLess(ranked_resumes[k][2], ranked_resumes[l][2])
              /\ InputPosition(k) # InputPosition(l)
              /\ ScoreEqual(ranked_resumes[k][2], ranked_resumes[l][2])
                    => InputPosition(k) < InputPosition(l)

\* C3 witness: a ranking that moved a record ahead of two records that tie
C3_Witness ==
    /\ pc = "ranked"
    /\ Len(ranked_resumes) = 3
    /\ InputPosition(1) = 3
    /\ ScoreEqual(ranked_resumes[2][2], ranked_resumes[3][2])
    /\ ScoreLess(ranked_resumes[2][2], ranked_resumes[1][2])

\* C4: rank_resumes called with a job description that is empty or
\* whitespace-only fails with the invalid-input error (the ValueError of
\* fit_transform) and scores no resume.
C4_BlankJobDescriptionFails ==
    (IsBlank(job_description) /\ pc # "rank") =>
        /\ pc = "raised"
        /\ error = "ValueError"
        /\ scores = <<>>
        /\ ranked_resumes = <<>>

\* C4 witness: the call failed on a whitespace-only job description with
\* resumes to score
C4_Witness ==
    /\ pc = "raised"
    /\ job_description = JD_Blank
    /\ Len(resumes) > 0

\* the record's raw_text has no term of the job description's vocabulary
SharesNoTerm(r) ==
    FitVocabulary(r.raw_text) \cap FitVocabulary(job_description) = {}

ExtractsCleanly(file) == ExtractError(file) = "none"

\* the file's record is among those shown under "Resume Analysis"
Analysed(file) ==
    \E i \in 1..Len(analysed) :
        /\ analysed[i].name = SplitExtRoot(file.name)
        /\ analysed[i].raw_text = _clean_text(extract_text(file))

\* the run of main is over: it returned, or extract_text raised
BatchOver ==
    \/ pc = "done"
    \/ pc = "raised" /\ error \in {"PdfOpenError", "TypeError"}

\* C5: in a batch of uploaded documents, a failure while extracting one
\* document does not keep the others from being analysed: every document
\* whose own extraction succeeds ends up in the analysed set.
C5_FailureIsolated ==
    BatchOver =>
        \A k \in 1..Len(uploaded_files) :
            ExtractsCleanly(uploaded_files[k]) => Analysed(uploaded_files[k])

\* the texts of a list
Range(seq) == {seq[k] : k \in 1..Len(seq)}

\* every text of found is in listed exactly once, and nothing else is
ListsEachOnce(listed, found) ==
    /\ Range(listed) = Range(found)
    /\ \A t \in Range(found) :
          Cardinality({i \in 1..Len(listed) : listed[i] = t}) = 1

\* C8: the record built by parse_resume has each distinct matched text at
\* most once in 'skills' and at most once in 'education', however often it
\* occurs in the text; the text "Python Python" gives exactly one SKILL
\* entry, "Python".
C8_Deduplicated ==
    \A k \in 1..Len(resumes) :
        /\ ListsEachOnce(resumes[k].skills,
                         EntTexts(resumes[k].raw_text, "SKILL"))
        /\ ListsEachOnce(resumes[k].education,
                         EntTexts(resumes[k].raw_text, "DEGREE"))
        /\ resumes[k].raw_text = T_PythonPython
              => resumes[k].skills = <<W_Python>>

\* C8 witness: a record was built from "Python Python", in which the tagger
\* finds Python twice
C8_Witness ==
    \E k \in 1..Len(resumes) :
        /\ resumes[k].raw_text = T_PythonPython
        /\ EntTexts(resumes[k].raw_text, "SKILL") = <<W_Python, W_Python>>

\* C10: the temporary file of an uploaded file is deleted before the next
\* uploaded file is processed, and once the loop has ended (normally or
\* because parse_resume raised) no temporary file of the loop exists.
C10_TempFilesDeleted ==
    /\ pc = "create" => tmp_files = {}
    /\ pc \in {"check_jd", "rank", "score", "ranked", "analysis", "done",
               "raised"} => tmp_files = {}

\* C1: normalisation is idempotent: _clean_text(_clean_text(x)) is
\* _clean_text(x) for every input string x.
C1_Idempotent == pc = "cleaned" => recleaned = cleaned

\* C2: the output of _clean_text never contains two consecutive spaces and
\* never contains a character outside letters, digits, space, period, comma
\* and hyphen.
C2_Normalized ==
    pc # "clean" =>
        /\ \A i \in 1..Len(cleaned) - 1 :
              ~(cleaned[i] = " " /\ cleaned[i + 1] = " ")
        /\ \A i \in 1..Len(cleaned) :
              cleaned[i] \in UpperSet \cup LowerSet \cup DigitSet
                             \cup {" ", ".", ",", "-"}

===========================================================================
